---- MODULE Spec2Model ----
(***************************************************************************)
(* Model of quilr_litellm_guardrails.QuilrGuardrail: the three LiteLLM     *)
(* hooks (pre_call, during_call, post_call), the filter gate, the          *)
(* Responses-API format adapter and the verdict application.               *)
(*                                                                         *)
(* A Python str is a sequence of characters (one-character strings); the   *)
(* literal parts of a formatted message are kept as single fragments.      *)
(* A dict is a function whose DOMAIN is the set of keys present.  The      *)
(* moderation endpoint is the environment: every hook suspends at          *)
(* "await self._call_quilr_api(...)" and is resumed by the endpoint's      *)
(* answer or by its failure.                                               *)
(***************************************************************************)
EXTENDS Integers, Sequences, FiniteSets, TLC

VARIABLES
    api_key,            \* self.api_key ("None" when QUILR_GUARDRAILS_KEY is unset)
    allowed_models,     \* self.allowed_models ({} is None)
    allowed_key_names,  \* self.allowed_key_names ({} is None)
    pc,                 \* "idle" | "await" | "returned" | "raised"
    hook,               \* hook being executed
    call_type,          \* call_type argument of the request hooks
    key_name,           \* user_api_key_dict.key_name
    data,               \* the request dict, mutated in place
    response,           \* the response object, mutated in place
    data0,              \* data on entry to the hook
    response0,          \* response on entry to the hook
    locals,             \* local variables live across the await
    payload,            \* body of the POST in flight
    sent,               \* bodies POSTed during this invocation, in order
    results,            \* endpoint answers received during this invocation
    failure,            \* exception raised inside _call_quilr_api ("none" if none)
    exception,          \* exception leaving the hook
    retval,             \* what the hook returned
    twin                \* outcome of the pre-call hook kept for a replay of
                        \* the same request through the during-call hook

vars == <<api_key, allowed_models, allowed_key_names, pc, hook, call_type,
          key_name, data, response, data0, response0, locals, payload, sent,
          results, failure, exception, retval, twin>>

config == <<api_key, allowed_models, allowed_key_names>>

(***************************************************************************)
(* Bounds of the explored inputs.                                          *)
(***************************************************************************)
MaxMsgs == 2        \* length of a request's message list / input list
MaxRedacted == 2    \* length of the replacement message list
MaxCategories == 2  \* length of categories_detected
MaxChoices == 2     \* choices of a chat-completions response
MaxItems == 2       \* output items of a Responses-API response
MaxParts == 3       \* content parts of a Responses-API response, in total

(***************************************************************************)
(* Values.                                                                 *)
(***************************************************************************)
None == "None"

\* truthiness test that forgets None
Falsy_only_empty(s) == s = ""

Falsy(s) == s = None \/ s = ""

SeqsUpTo(S, n) == UNION { [1..k -> S] : k \in 0..n }

ApiKeys == {None, "qk-live"}
ModelNames == {"gpt-4", "gpt-3.5"}
KeyNames == {"team-a", "team-b"}

RequestMsgs == { [role |-> "system", content |-> <<"s">>],
                 [role |-> "user", content |-> <<"a">>],
                 [role |-> "user", content |-> <<"b">>] }

RedactedMsgs == { [role |-> "system", content |-> <<"t">>],
                  [role |-> "user", content |-> <<"x">>],
                  [role |-> "assistant", content |-> <<"y">>] }

CategoryNames == { <<"p", "i", "i">>, <<"p", "c", "i">>, <<"i", "p">> }

NoException == [type |-> "none", message |-> <<>>]

TransportFailures == {"ConnectError", "HTTPStatusError", "JSONDecodeError"}

\* dict helpers
Get(d, k, default) == IF k \in DOMAIN d THEN d[k] ELSE default

Put(d, k, v) == [x \in DOMAIN d \cup {k} |-> IF x = k THEN v ELSE d[x]]

Del(d, k) == [x \in DOMAIN d \ {k} |-> d[x]]

FieldOpt(k, S) == { <<>> } \cup { k :> v : v \in S }

\* Responses-API input: a bare string or a list of message objects
InputStr(s) == [kind |-> "str", str |-> s, list |-> <<>>]

InputList(l) == [kind |-> "list", str |-> <<>>, list |-> l]

NoInput == [kind |-> "none", str |-> <<>>, list |-> <<>>]

InputFalsy(i) == i.kind = "none" \/ (i.kind = "str" /\ i.str = <<>>)
                    \/ (i.kind = "list" /\ i.list = <<>>)

NoTwin == [hook |-> "none", pc |-> "idle", call_type |-> "none",
           key_name |-> None, data0 |-> <<>>, data |-> <<>>, sent |-> <<>>,
           results |-> <<>>, failure |-> "none", exception |-> NoException,
           retval |-> "none"]

NoLocals == [is_responses_api |-> FALSE, original_input_was_string |-> FALSE,
             new_instructions |-> [has |-> FALSE, val |-> <<>>],
             new_input |-> [has |-> FALSE, val |-> NoInput],
             choice |-> 0, output_text_items |-> <<>>]

(***************************************************************************)
(* Pure helpers of the class.                                              *)
(***************************************************************************)
RECURSIVE Join(_, _)
Join(sep, strs) ==
    IF strs = <<>> THEN <<>>
    ELSE IF Len(strs) = 1 THEN strs[1]
    ELSE strs[1] \o sep \o Join(sep, Tail(strs))

\* formats the first detected category only
FormatBlockMessage_first(categories) ==
    IF categories # <<>>
    THEN <<"Content blocked by Quilr: ">> \o categories[1] \o <<" detected">>
    ELSE <<"Content blocked by Quilr">>

FormatBlockMessage(categories) ==
    IF categories # <<>>
    THEN <<"Content blocked by Quilr: ">> \o Join(<<",", " ">>, categories)
             \o <<" detected">>
    ELSE <<"Content blocked by Quilr">>

ResponsesInputToMessages(input_data, instructions) ==
    (IF instructions # <<>>
     THEN << [role |-> "system", content |-> instructions] >>
     ELSE <<>>)
    \o (IF input_data.kind = "str"
        THEN << [role |-> "user", content |-> input_data.str] >>
        ELSE IF input_data.kind = "list" THEN input_data.list ELSE <<>>)

IsSystem(msg) == msg.role = "system"

NotSystem(msg) == msg.role # "system"

LastSystem(messages) ==
    LET idx == { i \in 1..Len(messages) : IsSystem(messages[i]) }
    IN  IF idx = {} THEN 0 ELSE CHOOSE i \in idx : \A j \in idx : j <= i

\* forgets that the original input was a bare string
MessagesToResponsesInput_list(messages, original_input_was_string) ==
    LET input_messages == SelectSeq(messages, NotSystem)
        ls == LastSystem(messages)
        instructions ==
            IF ls # 0 THEN [has |-> TRUE, val |-> messages[ls].content]
            ELSE [has |-> FALSE, val |-> <<>>]
    IN  [instructions |-> instructions,
         input |-> IF input_messages # <<>>
                   THEN [has |-> TRUE, val |-> InputList(input_messages)]
                   ELSE [has |-> FALSE, val |-> NoInput]]

\* returns (instructions, input); has FALSE stands for None
MessagesToResponsesInput(messages, original_input_was_string) ==
    LET input_messages == SelectSeq(messages, NotSystem)
        ls == LastSystem(messages)
        instructions ==
            IF ls # 0 THEN [has |-> TRUE, val |-> messages[ls].content]
            ELSE [has |-> FALSE, val |-> <<>>]
    IN  IF original_input_was_string /\ Len(input_messages) = 1
        THEN [instructions |-> instructions,
              input |-> [has |-> TRUE,
                         val |-> InputStr(input_messages[1].content)]]
        ELSE [instructions |-> instructions,
              input |-> IF input_messages # <<>>
                        THEN [has |-> TRUE, val |-> InputList(input_messages)]
                        ELSE [has |-> FALSE, val |-> NoInput]]

\* OR of the configured lists instead of AND
ShouldApplyGuardrail_or(model, kname) ==
    IF allowed_models = {} /\ allowed_key_names = {} THEN TRUE
    ELSE \/ allowed_models # {} /\ ~Falsy(model) /\ model \in allowed_models
         \/ allowed_key_names # {} /\ ~Falsy(kname)
                /\ kname \in allowed_key_names

ShouldApplyGuardrail(model, kname) ==
    IF allowed_models = {} /\ allowed_key_names = {} THEN TRUE
    ELSE IF allowed_models # {} /\ (Falsy(model) \/ model \notin allowed_models)
         THEN FALSE
    ELSE IF allowed_key_names # {}
            /\ (Falsy(kname) \/ kname \notin allowed_key_names)
         THEN FALSE
    ELSE TRUE

(***************************************************************************)
(* Inputs handed to the hooks by the host and answers of the endpoint.     *)
(***************************************************************************)
ChatData ==
    { m @@ ms @@ ("temperature" :> 1) :
        m \in FieldOpt("model", ModelNames),
        ms \in FieldOpt("messages", SeqsUpTo(RequestMsgs, MaxMsgs)) }

ResponsesInputs ==
    { InputStr(<<>>), InputStr(<<"a">>) }
        \cup { InputList(l) : l \in SeqsUpTo(RequestMsgs, MaxMsgs) }

ResponsesData ==
    { m @@ i @@ s @@ ("temperature" :> 1) :
        m \in FieldOpt("model", ModelNames),
        i \in FieldOpt("input", ResponsesInputs),
        s \in FieldOpt("instructions", { <<>>, <<"s">> }) }

RequestData == ChatData \cup ResponsesData

ResponseData == { m @@ ("temperature" :> 1) : m \in FieldOpt("model", ModelNames) }

CallTypes == {"completion", "aresponses"}

KeyNameArgs == {None} \cup KeyNames

BlockedVerdicts ==
    { ("status" :> "blocked") @@ c :
        c \in FieldOpt("categories_detected",
                       SeqsUpTo(CategoryNames, MaxCategories)) }

PassVerdicts == { <<>>, "status" :> "safe", "status" :> "flagged" }

\* answers to a {"messages": [...]} body
MessageVerdicts ==
    PassVerdicts \cup BlockedVerdicts
        \cup { ("status" :> "redacted") @@ m :
                 m \in FieldOpt("messages", SeqsUpTo(RedactedMsgs, MaxRedacted)) }

\* answers to a {"text": "..."} body
TextVerdicts ==
    PassVerdicts \cup BlockedVerdicts
        \cup { ("status" :> "redacted") @@ t :
                 t \in FieldOpt("processed_text", { <<>>, <<"#">> }) }

NoResponse == [kind |-> "none", choices |-> <<>>, output |-> <<>>]

NoPayload == [kind |-> "none", messages |-> <<>>, text |-> <<>>]

MessagesPayload(messages) ==
    [kind |-> "messages", messages |-> messages, text |-> <<>>]

TextPayload(text) == [kind |-> "text", messages |-> <<>>, text |-> text]

RejectedRequestError(message) ==
    [type |-> "RejectedRequestError", message |-> message]

(***************************************************************************)
(* State after construction: __init__ reads the environment.               *)
(***************************************************************************)
Init ==
    /\ api_key \in ApiKeys
    /\ allowed_models \in { {}, {"gpt-4"} }
    /\ allowed_key_names \in { {}, {"team-a"} }
    /\ pc = "idle"
    /\ hook = "none"
    /\ call_type = "none"
    /\ key_name = None
    /\ data = <<>>
    /\ data0 = <<>>
    /\ response = NoResponse
    /\ response0 = NoResponse
    /\ locals = NoLocals
    /\ payload = NoPayload
    /\ sent = <<>>
    /\ results = <<>>
    /\ failure = "none"
    /\ exception = NoException
    /\ retval = "none"
    /\ twin = NoTwin

\* entry of a hook: arguments bound, nothing sent or received yet
Enter(h, ct, kn, d, r) ==
    /\ hook' = h
    /\ call_type' = ct
    /\ key_name' = kn
    /\ data0' = d
    /\ response0' = r
    /\ results' = <<>>
    /\ failure' = "none"
    /\ exception' = NoException
    /\ UNCHANGED <<config, twin>>

\* "return <rv>" with the payload objects in their final state
Return(rv, d, r, l) ==
    /\ pc' = "returned"
    /\ retval' = rv
    /\ data' = d
    /\ response' = r
    /\ locals' = l
    /\ payload' = NoPayload

\* "result = await self._call_quilr_api(body)": the POST leaves, the hook suspends
CallQuilrApi(body, d, r, l) ==
    /\ pc' = "await"
    /\ retval' = "none"
    /\ data' = d
    /\ response' = r
    /\ locals' = l
    /\ payload' = body
    /\ sent' = Append(sent, body)

\* an exception leaves the hook
Raise(exc, d, r) ==
    /\ pc' = "raised"
    /\ exception' = exc
    /\ retval' = "none"
    /\ data' = d
    /\ response' = r
    /\ UNCHANGED locals
    /\ payload' = NoPayload

(***************************************************************************)
(* async_pre_call_hook, up to its await                                    *)
(***************************************************************************)
async_pre_call_hook ==
    /\ pc = "idle"
    /\ \E d \in RequestData, kn \in KeyNameArgs, ct \in CallTypes :
           /\ Enter("pre_call", ct, kn, d, NoResponse)
           /\ IF Falsy(api_key)
              THEN Return("data", d, NoResponse, NoLocals) /\ UNCHANGED sent
              ELSE IF ~ShouldApplyGuardrail(Get(d, "model", None), kn)
              THEN Return("data", d, NoResponse, NoLocals) /\ UNCHANGED sent
              ELSE IF ct = "aresponses"
              THEN LET input_data == Get(d, "input", NoInput)
                       instructions == Get(d, "instructions", <<>>)
                       messages == ResponsesInputToMessages(input_data, instructions)
                   IN  IF InputFalsy(input_data)
                       THEN Return("data", d, NoResponse, NoLocals) /\ UNCHANGED sent
                       ELSE CallQuilrApi(MessagesPayload(messages), d, NoResponse,
                               [NoLocals EXCEPT
                                  !.is_responses_api = TRUE,
                                  !.original_input_was_string =
                                      (input_data.kind = "str")])
              ELSE LET messages == Get(d, "messages", <<>>)
                   IN  IF messages = <<>>
                       THEN Return("data", d, NoResponse, NoLocals) /\ UNCHANGED sent
                       ELSE CallQuilrApi(MessagesPayload(messages), d, NoResponse,
                                         NoLocals)

\* a missing status read as a rejection
Status_default_blocked(result) == Get(result, "status", "blocked")

Status(result) == Get(result, "status", "safe")

\* the chat branch drops the system messages of the replacement
ApplyRedactedMessages_nosystem(d, result, l) ==
    LET redacted_messages == Get(result, "messages", <<>>)
    IN  IF redacted_messages = <<>> THEN [data |-> d, locals |-> l]
        ELSE IF l.is_responses_api
        THEN LET new == MessagesToResponsesInput(redacted_messages,
                                                 l.original_input_was_string)
                 d1 == IF new.instructions.has
                       THEN Put(d, "instructions", new.instructions.val)
                       ELSE IF "instructions" \in DOMAIN d
                       THEN Del(d, "instructions")
                       ELSE d
             IN  [data |-> IF new.input.has
                           THEN Put(d1, "input", new.input.val) ELSE d1,
                  locals |-> [l EXCEPT !.new_instructions = new.instructions,
                                       !.new_input = new.input]]
        ELSE [data |-> Put(d, "messages",
                           SelectSeq(redacted_messages, NotSystem)),
              locals |-> l]

\* the chat branch without its "if redacted_messages:" test
ApplyRedactedMessages_noguard(d, result, l) ==
    LET redacted_messages == Get(result, "messages", <<>>)
    IN  IF l.is_responses_api
        THEN IF redacted_messages = <<>> THEN [data |-> d, locals |-> l]
             ELSE LET new == MessagesToResponsesInput(redacted_messages,
                                                 l.original_input_was_string)
                      d1 == IF new.instructions.has
                            THEN Put(d, "instructions", new.instructions.val)
                            ELSE IF "instructions" \in DOMAIN d
                            THEN Del(d, "instructions")
                            ELSE d
                  IN  [data |-> IF new.input.has
                                THEN Put(d1, "input", new.input.val) ELSE d1,
                       locals |-> [l EXCEPT
                                     !.new_instructions = new.instructions,
                                     !.new_input = new.input]]
        ELSE [data |-> Put(d, "messages", redacted_messages), locals |-> l]

\* the redacted branch of the request hooks; yields the dict and the locals
ApplyRedactedMessages(d, result, l) ==
    LET redacted_messages == Get(result, "messages", <<>>)
    IN  IF redacted_messages = <<>> THEN [data |-> d, locals |-> l]
        ELSE IF l.is_responses_api
        THEN LET new == MessagesToResponsesInput(redacted_messages,
                                                 l.original_input_was_string)
                 d1 == IF new.instructions.has
                       THEN Put(d, "instructions", new.instructions.val)
                       ELSE IF "instructions" \in DOMAIN d
                       THEN Del(d, "instructions")
                       ELSE d
             IN  [data |-> IF new.input.has
                           THEN Put(d1, "input", new.input.val) ELSE d1,
                  locals |-> [l EXCEPT !.new_instructions = new.instructions,
                                       !.new_input = new.input]]
        ELSE [data |-> Put(d, "messages", redacted_messages), locals |-> l]

(***************************************************************************)
(* async_pre_call_hook, from the endpoint's answer to its return           *)
(***************************************************************************)
pre_call_resume ==
    /\ pc = "await"
    /\ hook = "pre_call"
    /\ \E result \in MessageVerdicts :
        LET status == Status(result)
            categories == Get(result, "categories_detected", <<>>)
            redacted == ApplyRedactedMessages(data, result, locals)
        IN  /\ results' = Append(results, result)
            /\ IF status = "blocked"
               THEN Raise(RejectedRequestError(FormatBlockMessage(categories)),
                          data, response)
               ELSE IF status = "redacted"
               THEN /\ Return("data", redacted.data, response, redacted.locals)
                    /\ UNCHANGED exception
               ELSE Return("data", data, response, locals) /\ UNCHANGED exception
    /\ UNCHANGED <<config, twin, hook, call_type, key_name, data0, response0, sent,
                   failure>>

(***************************************************************************)
(* async_moderation_hook, up to its await                                    *)
(***************************************************************************)
\* body of async_moderation_hook on given arguments, up to its await
moderation_hook_enter(d, kn, ct) ==
    /\ Enter("during_call", ct, kn, d, NoResponse)
    /\ IF Falsy(api_key)
       THEN Return("nothing", d, NoResponse, NoLocals) /\ UNCHANGED sent
       ELSE IF ~ShouldApplyGuardrail(Get(d, "model", None), kn)
       THEN Return("nothing", d, NoResponse, NoLocals) /\ UNCHANGED sent
       ELSE IF ct = "aresponses"
       THEN LET input_data == Get(d, "input", NoInput)
                instructions == Get(d, "instructions", <<>>)
                messages == ResponsesInputToMessages(input_data, instructions)
            IN  IF InputFalsy(input_data)
                THEN Return("nothing", d, NoResponse, NoLocals) /\ UNCHANGED sent
                ELSE CallQuilrApi(MessagesPayload(messages), d, NoResponse,
                        [NoLocals EXCEPT
                           !.is_responses_api = TRUE,
                           !.original_input_was_string =
                               (input_data.kind = "str")])
       ELSE LET messages == Get(d, "messages", <<>>)
            IN  IF messages = <<>>
                THEN Return("nothing", d, NoResponse, NoLocals) /\ UNCHANGED sent
                ELSE CallQuilrApi(MessagesPayload(messages), d, NoResponse,
                                  NoLocals)

async_moderation_hook ==
    /\ pc = "idle"
    /\ \E d \in RequestData, kn \in KeyNameArgs, ct \in CallTypes :
           moderation_hook_enter(d, kn, ct)

\* the during-call hook ignoring a "redacted" verdict
moderation_resume_noredact ==
    /\ pc = "await"
    /\ hook = "during_call"
    /\ \E result \in MessageVerdicts :
        LET status == Status(result)
            categories == Get(result, "categories_detected", <<>>)
        IN  /\ results' = Append(results, result)
            /\ IF status = "blocked"
               THEN Raise(RejectedRequestError(FormatBlockMessage(categories)),
                          data, response)
               ELSE Return("nothing", data, response, locals)
                    /\ UNCHANGED exception
    /\ UNCHANGED <<config, twin, hook, call_type, key_name, data0, response0,
                   sent, failure>>

(***************************************************************************)
(* async_moderation_hook, from the endpoint's answer to its return           *)
(***************************************************************************)
moderation_resume ==
    /\ pc = "await"
    /\ hook = "during_call"
    /\ \E result \in MessageVerdicts :
        LET status == Status(result)
            categories == Get(result, "categories_detected", <<>>)
            redacted == ApplyRedactedMessages(data, result, locals)
        IN  /\ results' = Append(results, result)
            /\ IF status = "blocked"
               THEN Raise(RejectedRequestError(FormatBlockMessage(categories)),
                          data, response)
               ELSE IF status = "redacted"
               THEN /\ Return("nothing", redacted.data, response, redacted.locals)
                    /\ UNCHANGED exception
               ELSE Return("nothing", data, response, locals) /\ UNCHANGED exception
    /\ UNCHANGED <<config, twin, hook, call_type, key_name, data0, response0, sent,
                   failure>>

(***************************************************************************)
(* Response objects.                                                       *)
(***************************************************************************)
Choices == { [has_message |-> FALSE, content |-> <<>>],
             [has_message |-> TRUE, content |-> <<>>],
             [has_message |-> TRUE, content |-> <<"a">>],
             [has_message |-> TRUE, content |-> <<"b">>] }

Parts == { [type |-> "output_text", text |-> <<"a">>],
           [type |-> "output_text", text |-> <<>>],
           [type |-> "refusal", text |-> <<"r">>] }

\* outputs of exactly n items that hold at most budget parts together
RECURSIVE OutputsOf(_, _)
OutputsOf(n, budget) ==
    IF n = 0 THEN { <<>> }
    ELSE UNION { { << [content |-> c] >> \o rest :
                     rest \in OutputsOf(n - 1, budget - Len(c)) } :
                 c \in SeqsUpTo(Parts, budget) }

Outputs == UNION { OutputsOf(n, MaxParts) : n \in 0..MaxItems }

ChatResponses ==
    { [kind |-> "ModelResponse", choices |-> c, output |-> <<>>] :
        c \in SeqsUpTo(Choices, MaxChoices) }

ResponsesResponses ==
    { [kind |-> "ResponsesAPIResponse", choices |-> <<>>, output |-> o] :
        o \in Outputs }

OtherResponses ==
    { [kind |-> "EmbeddingResponse", choices |-> <<>>, output |-> <<>>] }

Responses == ChatResponses \cup ResponsesResponses \cup OtherResponses

\* the loop without its two "continue" tests
NextChoice_noskip(choices, from) ==
    IF from <= Len(choices) THEN from ELSE 0

\* first choice at or after position from that the loop does not skip; 0 if none
NextChoice(choices, from) ==
    LET idx == { i \in from..Len(choices) :
                    choices[i].has_message /\ choices[i].content # <<>> }
    IN  IF idx = {} THEN 0 ELSE CHOOSE i \in idx : \A k \in idx : i <= k

\* positions <<item, part>> of the non-empty output_text parts, in output order
RECURSIVE CollectOutputTextItems(_, _)
CollectOutputTextItems(output, i) ==
    IF i > Len(output) THEN <<>>
    ELSE LET content == output[i].content
             IsText(j) == content[j].type = "output_text" /\ content[j].text # <<>>
             here == SelectSeq([j \in 1..Len(content) |-> j], IsText)
         IN  [k \in 1..Len(here) |-> <<i, here[k]>>]
                 \o CollectOutputTextItems(output, i + 1)

TextOf(output, pos) == output[pos[1]].content[pos[2]].text

AllText(output, items) ==
    Join(<<"\n">>, [k \in 1..Len(items) |-> TextOf(output, items[k])])

\* the other collected parts are not cleared
ReplaceOutputText_keep(output, items, processed_text) ==
    [i \in 1..Len(output) |->
        [content |->
            [j \in 1..Len(output[i].content) |->
                IF <<i, j>> = items[1]
                THEN [output[i].content[j] EXCEPT !.text = processed_text]
                ELSE output[i].content[j]]]]

\* lines 541-545: first collected part gets the text, the others are cleared
ReplaceOutputText(output, items, processed_text) ==
    [i \in 1..Len(output) |->
        [content |->
            [j \in 1..Len(output[i].content) |->
                IF <<i, j>> = items[1]
                THEN [output[i].content[j] EXCEPT !.text = processed_text]
                ELSE IF \E k \in 2..Len(items) : items[k] = <<i, j>>
                THEN [output[i].content[j] EXCEPT !.text = <<>>]
                ELSE output[i].content[j]]]]

(***************************************************************************)
(* async_post_call_success_hook, up to the first await of the checker it   *)
(* dispatches to                                                           *)
(***************************************************************************)
async_post_call_success_hook ==
    /\ pc = "idle"
    /\ \E d \in ResponseData, kn \in KeyNameArgs, r \in Responses :
           /\ Enter("post_call", "none", kn, d, r)
           /\ IF Falsy(api_key)
              THEN Return("response", d, r, NoLocals) /\ UNCHANGED sent
              ELSE IF ~ShouldApplyGuardrail(Get(d, "model", None), kn)
              THEN Return("response", d, r, NoLocals) /\ UNCHANGED sent
              ELSE IF r.kind = "ResponsesAPIResponse"
              THEN LET output_text_items == CollectOutputTextItems(r.output, 1)
                   IN  IF output_text_items = <<>>
                       THEN Return("response", d, r, NoLocals) /\ UNCHANGED sent
                       ELSE CallQuilrApi(
                               TextPayload(AllText(r.output, output_text_items)),
                               d, r,
                               [NoLocals EXCEPT
                                  !.output_text_items = output_text_items])
              ELSE IF r.kind = "ModelResponse"
              THEN LET c == NextChoice(r.choices, 1)
                   IN  IF c = 0
                       THEN Return("response", d, r, NoLocals) /\ UNCHANGED sent
                       ELSE CallQuilrApi(TextPayload(r.choices[c].content), d, r,
                                         [NoLocals EXCEPT !.choice = c])
              ELSE Return("response", d, r, NoLocals) /\ UNCHANGED sent

(***************************************************************************)
(* _check_chat_completions_output: one turn of the loop over the choices,  *)
(* from the endpoint's answer to the next await or the return              *)
(***************************************************************************)
check_chat_completions_output_resume ==
    /\ pc = "await"
    /\ hook = "post_call"
    /\ response.kind = "ModelResponse"
    /\ \E result \in TextVerdicts :
        LET status == Status(result)
            categories == Get(result, "categories_detected", <<>>)
            processed_text == Get(result, "processed_text", <<>>)
            c == locals.choice
            r1 == IF status = "redacted" /\ processed_text # <<>>
                  THEN [response EXCEPT !.choices[c].content = processed_text]
                  ELSE response
            n == NextChoice(r1.choices, c + 1)
        IN  /\ results' = Append(results, result)
            /\ IF status = "blocked"
               THEN /\ Raise(RejectedRequestError(FormatBlockMessage(categories)),
                             data, response)
                    /\ UNCHANGED sent
               ELSE IF n = 0
               THEN /\ Return("response", data, r1, locals)
                    /\ UNCHANGED <<exception, sent>>
               ELSE /\ CallQuilrApi(TextPayload(r1.choices[n].content), data, r1,
                                    [locals EXCEPT !.choice = n])
                    /\ UNCHANGED exception
    /\ UNCHANGED <<config, twin, hook, call_type, key_name, data0, response0, failure>>

(***************************************************************************)
(* _check_responses_api_output, from the endpoint's answer to its return   *)
(***************************************************************************)
check_responses_api_output_resume ==
    /\ pc = "await"
    /\ hook = "post_call"
    /\ response.kind = "ResponsesAPIResponse"
    /\ \E result \in TextVerdicts :
        LET status == Status(result)
            categories == Get(result, "categories_detected", <<>>)
            processed_text == Get(result, "processed_text", <<>>)
        IN  /\ results' = Append(results, result)
            /\ IF status = "blocked"
               THEN Raise(RejectedRequestError(FormatBlockMessage(categories)),
                          data, response)
               ELSE IF status = "redacted" /\ processed_text # <<>>
               THEN /\ Return("response", data,
                              [response EXCEPT !.output =
                                  ReplaceOutputText(response.output,
                                      locals.output_text_items, processed_text)],
                              locals)
                    /\ UNCHANGED exception
               ELSE Return("response", data, response, locals)
                    /\ UNCHANGED exception
    /\ UNCHANGED <<config, twin, hook, call_type, key_name, data0, response0, sent,
                   failure>>

\* the failure is logged and swallowed: the hook returns its payload
call_quilr_api_raises_failopen ==
    /\ pc = "await"
    /\ \E e \in TransportFailures :
        /\ failure' = e
        /\ Return(IF hook = "pre_call" THEN "data"
                  ELSE IF hook = "during_call" THEN "nothing" ELSE "response",
                  data, response, locals)
    /\ UNCHANGED <<config, twin, hook, call_type, key_name, data0, response0, sent,
                   results, exception>>

(***************************************************************************)
(* _call_quilr_api raising: the request fails, raise_for_status() rejects  *)
(* a non-2xx answer or response.json() rejects the body.  Every call site  *)
(* logs the exception and re-raises it.                                    *)
(***************************************************************************)
call_quilr_api_raises ==
    /\ pc = "await"
    /\ \E e \in TransportFailures :
        /\ failure' = e
        /\ Raise([type |-> e, message |-> <<>>], data, response)
    /\ UNCHANGED <<config, twin, hook, call_type, key_name, data0, response0, sent,
                   results>>

(***************************************************************************)
(* The hook's coroutine is finished; the host goes on to another request.  *)
(***************************************************************************)
host_next_request ==
    /\ pc \in {"returned", "raised"}
    /\ pc' = "idle"
    /\ hook' = "none"
    /\ call_type' = "none"
    /\ key_name' = None
    /\ data' = <<>>
    /\ data0' = <<>>
    /\ response' = NoResponse
    /\ response0' = NoResponse
    /\ locals' = NoLocals
    /\ payload' = NoPayload
    /\ sent' = <<>>
    /\ results' = <<>>
    /\ failure' = "none"
    /\ exception' = NoException
    /\ retval' = "none"
    /\ UNCHANGED <<config, twin>>

Next ==
    \/ async_pre_call_hook
    \/ pre_call_resume
    \/ async_moderation_hook
    \/ moderation_resume
    \/ async_post_call_success_hook
    \/ check_chat_completions_output_resume
    \/ check_responses_api_output_resume
    \/ call_quilr_api_raises
    \/ host_next_request

Spec == Init /\ [][Next]_vars

(***************************************************************************)
(* The same request through both request hooks: the pre-call hook runs on  *)
(* any request with any answer of the endpoint, its outcome is kept in     *)
(* twin, and the during-call hook then runs on the same arguments with the *)
(* same configuration and receives the same answer (or the same failure).  *)
(***************************************************************************)
pair_pre_call_hook ==
    /\ twin = NoTwin
    /\ async_pre_call_hook

pair_pre_call_raises ==
    /\ hook = "pre_call"
    /\ call_quilr_api_raises

pair_replay ==
    /\ pc \in {"returned", "raised"}
    /\ hook = "pre_call"
    /\ twin = NoTwin
    /\ twin' = [hook |-> hook, pc |-> pc, call_type |-> call_type,
                key_name |-> key_name, data0 |-> data0, data |-> data,
                sent |-> sent, results |-> results, failure |-> failure,
                exception |-> exception, retval |-> retval]
    /\ pc' = "idle"
    /\ hook' = "none"
    /\ call_type' = "none"
    /\ key_name' = None
    /\ data' = <<>>
    /\ data0' = <<>>
    /\ response' = NoResponse
    /\ response0' = NoResponse
    /\ locals' = NoLocals
    /\ payload' = NoPayload
    /\ sent' = <<>>
    /\ results' = <<>>
    /\ failure' = "none"
    /\ exception' = NoException
    /\ retval' = "none"
    /\ UNCHANGED config

pair_moderation_hook ==
    /\ twin.hook = "pre_call"
    /\ pc = "idle"
    /\ moderation_hook_enter(twin.data0, twin.key_name, twin.call_type)

pair_moderation_resume ==
    /\ twin.hook = "pre_call"
    /\ twin.failure = "none"
    /\ results' = twin.results
    /\ moderation_resume

pair_moderation_raises ==
    /\ twin.hook = "pre_call"
    /\ hook = "during_call"
    /\ failure' = twin.failure
    /\ call_quilr_api_raises

NextPair ==
    \/ pair_pre_call_hook
    \/ pre_call_resume
    \/ pair_pre_call_raises
    \/ pair_replay
    \/ pair_moderation_hook
    \/ pair_moderation_resume
    \/ pair_moderation_raises

SpecPair == Init /\ [][NextPair]_vars

(***************************************************************************)
(* Properties.                                                             *)
(***************************************************************************)
Contains(str, sub) ==
    \E i \in 0..(Len(str) - Len(sub)) : SubSeq(str, i + 1, i + Len(sub)) = sub

RequestHooks == {"pre_call", "during_call"}

LastResult == results[Len(results)]

\* C1: in every hook, an answer with status "blocked" makes the hook raise
\* RejectedRequestError instead of returning, and the message of the error
\* contains every name of the answer's categories_detected.
C1_BlockedRaisesWithCategories ==
    \A i \in 1..Len(results) :
        ("status" \in DOMAIN results[i] /\ results[i]["status"] = "blocked")
        => /\ pc = "raised"
           /\ retval = "none"
           /\ exception.type = "RejectedRequestError"
           /\ LET categories == Get(results[i], "categories_detected", <<>>)
              IN  \A k \in 1..Len(categories) :
                      Contains(exception.message, categories[k])

C1_Witness ==
    /\ pc = "raised"
    /\ hook = "post_call"
    /\ results # <<>>
    /\ Get(LastResult, "status", "safe") = "blocked"
    /\ LET categories == Get(LastResult, "categories_detected", <<>>)
       IN  Len(categories) >= 2 /\ categories[1] # categories[2]

\* C2: in every hook and for both payload shapes, when every answer of the
\* endpoint is "safe", an unrecognized status or carries no status, the hook
\* does not reject and the request data and the response object are what they
\* were on entry.
C2_SafeLeavesPayloadUnchanged ==
    (results # <<>>
     /\ \A i \in 1..Len(results) :
           \/ "status" \notin DOMAIN results[i]
           \/ results[i]["status"] \notin {"blocked", "redacted"})
    => /\ data = data0
       /\ response = response0
       /\ exception.type # "RejectedRequestError"
       /\ pc = "raised" => failure # "none"
       /\ pc = "returned" => retval \in {"data", "nothing", "response"}

C2_Witness ==
    /\ pc = "returned"
    /\ hook = "pre_call"
    /\ call_type = "aresponses"
    /\ Len(results) = 1
    /\ DOMAIN results[1] = {}

\* C3: without a credential every hook is a pass-through: nothing is sent to
\* the endpoint, the hook does not suspend or raise, and the payload is what
\* it was on entry.
C3_NoCredentialNoOp ==
    (api_key = None \/ api_key = "")
    => /\ sent = <<>>
       /\ pc \in {"idle", "returned"}
       /\ exception = NoException
       /\ data = data0
       /\ response = response0

C3_Witness ==
    /\ api_key = None
    /\ pc = "returned"
    /\ hook = "pre_call"
    /\ call_type = "completion"
    /\ Get(data0, "messages", <<>>) # <<>>

\* the request fails a configured allow-list
Excluded ==
    LET model == Get(data0, "model", None)
    IN  \/ allowed_models # {} /\ (model = None \/ model \notin allowed_models)
        \/ allowed_key_names # {}
              /\ (key_name = None \/ key_name \notin allowed_key_names)

\* C4: a request that fails a configured allow-list (model or key name,
\* missing or not listed) is never sent to the endpoint and is returned
\* unchanged; an unconfigured list restricts nothing, so a chat request with
\* messages that passes every configured list is sent when a credential is
\* set.
C4_FilterGate ==
    /\ (hook # "none" /\ Excluded)
       => /\ sent = <<>>
          /\ pc = "returned"
          /\ data = data0
          /\ response = response0
    /\ (hook \in RequestHooks /\ call_type = "completion" /\ ~Excluded
        /\ api_key = "qk-live" /\ Get(data0, "messages", <<>>) # <<>>)
       => sent # <<>>

C4_Witness ==
    /\ hook = "pre_call"
    /\ pc = "returned"
    /\ api_key = "qk-live"
    /\ allowed_models = {"gpt-4"}
    /\ allowed_key_names = {"team-a"}
    /\ Get(data0, "model", None) = "gpt-4"
    /\ key_name = "team-b"
    /\ Get(data0, "messages", <<>>) # <<>>

\* C5: in the pre-call hook on a chat-completions request, a "redacted"
\* answer with a (non-empty) replacement list leaves data["messages"] equal
\* to that list and every other field of the data as it was.
C5_RedactedReplacesMessages ==
    (hook = "pre_call" /\ call_type = "completion" /\ pc = "returned"
     /\ results # <<>>
     /\ Get(LastResult, "status", "safe") = "redacted"
     /\ Get(LastResult, "messages", <<>>) # <<>>)
    => /\ retval = "data"
       /\ "messages" \in DOMAIN data
       /\ data["messages"] = LastResult["messages"]
       /\ DOMAIN data = DOMAIN data0
       /\ \A k \in DOMAIN data \ {"messages"} : data[k] = data0[k]

C5_Witness ==
    /\ hook = "pre_call"
    /\ call_type = "completion"
    /\ pc = "returned"
    /\ results # <<>>
    /\ Get(LastResult, "status", "safe") = "redacted"
    /\ Len(Get(LastResult, "messages", <<>>)) = 2
    /\ LastResult["messages"][1].role = "user"
    /\ LastResult["messages"][2].role = "system"
    /\ data["messages"] # data0["messages"]

NonSystemOf(messages) ==
    LET Keep(m) == m.role # "system" IN SelectSeq(messages, Keep)

\* a request hook has returned from a Responses-API request whose answer was
\* "redacted" with a non-empty replacement list
RedactedResponsesRequest ==
    /\ hook \in RequestHooks
    /\ call_type = "aresponses"
    /\ pc = "returned"
    /\ results # <<>>
    /\ Get(LastResult, "status", "safe") = "redacted"
    /\ Get(LastResult, "messages", <<>>) # <<>>

\* C6 as stated: a bare-string original and exactly one non-system message
\* rebuild to that message's content as a string; a list original, or more
\* than one non-system message, rebuild to the list of non-system messages.
C6_Original ==
    RedactedResponsesRequest
    => LET rest == NonSystemOf(LastResult["messages"])
           was_string == data0["input"].kind = "str"
       IN  /\ (was_string /\ Len(rest) = 1)
              => locals.new_input =
                    [has |-> TRUE, val |-> InputStr(rest[1].content)]
           /\ (~was_string \/ Len(rest) > 1)
              => locals.new_input = [has |-> TRUE, val |-> InputList(rest)]

\* C6 (amended): a bare-string original and exactly one non-system message
\* rebuild to that message's content as a string; otherwise, when at least
\* one non-system message remains, the rebuilt input is the list of the
\* non-system messages in their order; when none remains the rebuilt input
\* is None, not an empty list.
C6_RebuiltInput ==
    RedactedResponsesRequest
    => LET rest == NonSystemOf(LastResult["messages"])
           was_string == data0["input"].kind = "str"
       IN  /\ (was_string /\ Len(rest) = 1)
              => locals.new_input =
                    [has |-> TRUE, val |-> InputStr(rest[1].content)]
           /\ ((~was_string /\ Len(rest) >= 1) \/ Len(rest) > 1)
              => locals.new_input = [has |-> TRUE, val |-> InputList(rest)]
           /\ Len(rest) = 0 => locals.new_input.has = FALSE

C6_Witness ==
    /\ RedactedResponsesRequest
    /\ data0["input"].kind = "str"
    /\ Len(LastResult["messages"]) = 2
    /\ Len(NonSystemOf(LastResult["messages"])) = 1
    /\ data["input"].kind = "str"

\* C7 as stated: a hook invocation makes at most one call to the endpoint.
C7_Original == Len(sent) <= 1

\* choices of the response on entry that carry non-empty text
TextChoices0 ==
    { i \in 1..Len(response0.choices) :
        response0.choices[i].has_message /\ response0.choices[i].content # <<>> }

\* C7 (amended): the request hooks and the post-call hook on a Responses-API
\* response make at most one call per invocation; the post-call hook on a
\* chat-completions response makes one call per choice with non-empty text,
\* each awaited before the next is sent.
C7_CallsPerInvocation ==
    /\ Len(sent) <= Len(results) + 1
    /\ pc = "await" => Len(sent) = Len(results) + 1
    /\ (hook \in RequestHooks \/ response0.kind # "ModelResponse")
       => Len(sent) <= 1
    /\ Len(sent) <= Cardinality(TextChoices0) \/ Len(sent) <= 1
    /\ \A i \in 1..Len(sent) : sent[i].kind = "text" => sent[i].text # <<>>
    /\ (pc = "returned" /\ sent # <<>> /\ response0.kind = "ModelResponse")
       => Len(sent) = Cardinality(TextChoices0)

C7_Witness ==
    /\ hook = "post_call"
    /\ response0.kind = "ModelResponse"
    /\ pc = "returned"
    /\ Len(sent) = 2
    /\ Len(results) = 2

\* positions of the non-empty output_text parts of the response on entry
TextParts0 ==
    UNION { { <<i, j>> : j \in { k \in 1..Len(response0.output[i].content) :
                                   /\ response0.output[i].content[k].type
                                          = "output_text"
                                   /\ response0.output[i].content[k].text
                                          # <<>> } } :
            i \in 1..Len(response0.output) }

Earlier(p, q) == p[1] < q[1] \/ (p[1] = q[1] /\ p[2] < q[2])

\* C8: on a Responses-API response, a "redacted" answer with replacement
\* text puts that text in the first non-empty output_text part (in output
\* order) and the empty string in every other non-empty output_text part;
\* other parts, and the number and order of parts, are unchanged.
C8_RedactedOutputText ==
    (hook = "post_call" /\ response0.kind = "ResponsesAPIResponse"
     /\ pc = "returned" /\ results # <<>>
     /\ Get(LastResult, "status", "safe") = "redacted"
     /\ Get(LastResult, "processed_text", <<>>) # <<>>)
    => /\ retval = "response"
       /\ response.kind = response0.kind
       /\ Len(response.output) = Len(response0.output)
       /\ \A i \in 1..Len(response0.output) :
            LET old == response0.output[i].content
                new == response.output[i].content
            IN  /\ Len(new) = Len(old)
                /\ \A j \in 1..Len(old) :
                     /\ new[j].type = old[j].type
                     /\ new[j].text =
                          IF <<i, j>> \notin TextParts0 THEN old[j].text
                          ELSE IF \E q \in TextParts0 : Earlier(q, <<i, j>>)
                          THEN <<>>
                          ELSE LastResult["processed_text"]

C8_Witness ==
    /\ hook = "post_call"
    /\ response0.kind = "ResponsesAPIResponse"
    /\ pc = "returned"
    /\ results # <<>>
    /\ Get(LastResult, "status", "safe") = "redacted"
    /\ Get(LastResult, "processed_text", <<>>) # <<>>
    /\ Len(response0.output) = 2
    /\ <<1, 2>> \in TextParts0
    /\ <<2, 1>> \in TextParts0
    /\ response0.output[1].content[1].type = "refusal"
    /\ response # response0

\* C9: when the call to the endpoint fails, the hook raises that failure: it
\* does not return, the exception is not a RejectedRequestError, and the
\* failed call is the last one of the invocation.
C9_TransportFailurePropagates ==
    failure # "none"
    => /\ pc = "raised"
       /\ retval = "none"
       /\ exception.type = failure
       /\ exception.type # "RejectedRequestError"
       /\ Len(sent) = Len(results) + 1

C9_Witness ==
    /\ failure = "HTTPStatusError"
    /\ pc = "raised"
    /\ hook = "post_call"
    /\ Len(sent) = 2

\* C10: in the request hooks on a Responses-API request, a "redacted" answer
\* with a non-empty replacement list leaves data["input"] built from the
\* replacement's non-system messages (no longer the original input) and
\* data["instructions"] equal to the replacement's system-message content,
\* or absent when the replacement has no system message.
C10_RedactedReplacesInput ==
    RedactedResponsesRequest
    => LET msgs == LastResult["messages"]
           rest == NonSystemOf(msgs)
           system == { i \in 1..Len(msgs) : msgs[i].role = "system" }
           was_string == data0["input"].kind = "str"
       IN  /\ "input" \in DOMAIN data
           /\ data["input"] = IF was_string /\ Len(rest) = 1
                              THEN InputStr(rest[1].content)
                              ELSE InputList(rest)
           /\ data["input"] # data0["input"]
           /\ IF system = {}
              THEN "instructions" \notin DOMAIN data
              ELSE /\ "instructions" \in DOMAIN data
                   /\ \E i \in system : data["instructions"] = msgs[i].content

\* the answer is "redacted" and carries no replacement: messages and
\* processed_text are each missing or empty
RedactedWithoutReplacement(result) ==
    /\ "status" \in DOMAIN result
    /\ result["status"] = "redacted"
    /\ Get(result, "messages", <<>>) = <<>>
    /\ Get(result, "processed_text", <<>>) = <<>>

\* C12: when every answer of the endpoint is "redacted" without a
\* replacement, the hook does not reject and the request data and the
\* response object stay what they were on entry; the hook returns unless a
\* later call of the same invocation fails in transport.
C12_RedactedWithoutReplacementPasses ==
    (results # <<>>
     /\ \A i \in 1..Len(results) : RedactedWithoutReplacement(results[i]))
    => /\ data = data0
       /\ response = response0
       /\ exception.type # "RejectedRequestError"
       /\ pc \in {"returned", "await", "raised"}
       /\ pc = "raised" => failure # "none"
       /\ pc = "await" => (hook = "post_call"
                           /\ response0.kind = "ModelResponse")
       /\ pc = "returned" => retval \in {"data", "nothing", "response"}

C12_Witness ==
    /\ pc = "returned"
    /\ hook = "pre_call"
    /\ call_type = "completion"
    /\ Len(results) = 1
    /\ "messages" \in DOMAIN results[1]
    /\ RedactedWithoutReplacement(results[1])
    /\ data["messages"] # <<>>

\* C11: on the same configuration, request data, key name, call type and
\* endpoint answer, the during-call hook makes the same endpoint call as the
\* pre-call hook (or none), raises in the same cases with the same exception
\* and message, and leaves the request data in the same final state; only
\* the returned value differs (data against nothing).
C11_RequestHooksEquivalent ==
    (twin.hook = "pre_call" /\ hook = "during_call")
    => /\ sent = twin.sent
       /\ pc = "await" => (twin.sent # <<>> /\ data = twin.data0)
       /\ pc \in {"returned", "raised"}
          => /\ pc = twin.pc
             /\ results = twin.results
             /\ failure = twin.failure
             /\ exception = twin.exception
             /\ data = twin.data
       /\ pc = "returned" => (twin.retval = "data" /\ retval = "nothing")
       /\ pc = "raised" => (twin.retval = "none" /\ retval = "none")

C11_Witness ==
    /\ twin.hook = "pre_call"
    /\ hook = "during_call"
    /\ call_type = "aresponses"
    /\ pc = "returned"
    /\ Len(results) = 1
    /\ Get(results[1], "status", "safe") = "redacted"
    /\ data # data0
    /\ data = twin.data

====
